---- MODULE Spec2Model ----
(***************************************************************************)
(* Model of fast_alpr.alpr.ALPR: the two-stage recognition pipeline        *)
(* (predict) and the visualisation overlay (draw_predictions).             *)
(*                                                                         *)
(* Strings are sequences of one-character strings.  Optional values are    *)
(* records [some, val].  A frame is a function from <<y, x>> to a BGR      *)
(* colour; a crop is a sequence of rows of colours.  Confidences are       *)
(* integers in units of 0.01.                                              *)
(***************************************************************************)
EXTENDS Integers, Sequences, FiniteSets, TLC

(* ---------------------------- bounds ---------------------------------- *)
FrameH == 5
FrameW == 5
MaxDets == 2
MaxTextLen == 3
MaxConfLen == 2

(* ------------------------- small helpers ------------------------------ *)
Min(a, b) == IF a < b THEN a ELSE b
Max(a, b) == IF a > b THEN a ELSE b

SeqsUpTo(S, n) == UNION {[1..k -> S] : k \in 0..n}

(* ----------------------------- colours -------------------------------- *)
Green == <<36, 255, 12>>
Black == <<0, 0, 0>>
White == <<255, 255, 255>>
Gray  == <<128, 128, 128>>

Pixels == (0..(FrameH - 1)) \X (0..(FrameW - 1))

Frames ==
    { [p \in Pixels |-> Black],
      [p \in Pixels |-> IF (p[1] + p[2]) % 2 = 0 THEN Gray ELSE Black],
      [p \in Pixels |-> Green] }

(* --------------------- detections (bounding boxes) -------------------- *)
BBox(x1, y1, x2, y2) == [x1 |-> x1, y1 |-> y1, x2 |-> x2, y2 |-> y2]

ScenarioBox == BBox(10, 10, 50, 40)

Boxes ==
    { BBox(0, 0, 2, 2),      \* inside the frame
      BBox(0, 0, 4, 4),      \* inside the frame, overlaps the first
      BBox(2, 2, 2, 2),      \* zero area
      BBox(1, 10, 3, 40) }   \* rows out of range: empty crop, text on frame

(* ----------------------------- OCR results ---------------------------- *)
NoneStr == [some |-> FALSE, val |-> <<>>]
Str(s)  == [some |-> TRUE, val |-> s]

NoneResult ==
    [some |-> FALSE, text |-> NoneStr, confidences |-> <<>>,
     padding_symbol |-> NoneStr]
OcrResult(t, c, p) ==
    [some |-> TRUE, text |-> t, confidences |-> c, padding_symbol |-> p]

Alphabet == {"A", "_"}
ConfVals == {90, 100}
Texts    == {NoneStr} \cup {Str(s) : s \in SeqsUpTo(Alphabet, MaxTextLen)}
PadSyms  == {NoneStr, Str(<<>>), Str(<<"_">>)}

\* every result the OCR capability may hand back for one crop
AllOcrResults ==
    {NoneResult} \cup
    { OcrResult(t, c, p) :
        t \in Texts, c \in SeqsUpTo(ConfVals, MaxConfLen), p \in PadSyms }

\* a small range covering each branch of the skip policy
FewOcrResults ==
    { NoneResult,
      OcrResult(Str(<<>>), <<90>>, NoneStr),
      OcrResult(Str(<<"A">>), <<>>, NoneStr),
      OcrResult(Str(<<"A">>), <<100>>, NoneStr),
      OcrResult(Str(<<"B", "_">>), <<90, 100>>, Str(<<"_">>)),
      OcrResult(Str(<<"_">>), <<90>>, Str(<<"_">>)) }

(* --------------------------- numpy slicing ---------------------------- *)
\* one bound of a[start:stop] on an axis of length n
SliceBound(k, n) ==
    IF k < 0 THEN Max(k + n, 0) ELSE Min(k, n)

\* frame[y1:y2, x1:x2]
Crop(f, b) ==
    LET ys == SliceBound(b.y1, FrameH)
        ye == SliceBound(b.y2, FrameH)
        xs == SliceBound(b.x1, FrameW)
        xe == SliceBound(b.x2, FrameW)
        ch == Max(ye - ys, 0)
        cw == Max(xe - xs, 0)
    IN  [r \in 1..ch |-> [c \in 1..cw |-> f[<<ys + r - 1, xs + c - 1>>]]]

(* ------------------------------ skip policy --------------------------- *)
\* variant: the confidences are not looked at
OcrSkippedIgnoringConfidences(r) ==
    \/ ~r.some
    \/ ~r.text.some
    \/ r.text.val = <<>>

\* ocr_result is None or not ocr_result.text or not ocr_result.confidences
OcrSkipped(r) ==
    \/ ~r.some
    \/ ~r.text.some
    \/ r.text.val = <<>>
    \/ r.confidences = <<>>

(* --------------------------- str.replace(old, "") --------------------- *)
StartsWith(s, old) ==
    /\ Len(old) <= Len(s)
    /\ SubSeq(s, 1, Len(old)) = old

\* variant: str.replace(old, "", 1), only the first occurrence goes
RECURSIVE ReplaceFirst(_, _)
ReplaceFirst(s, old) ==
    IF old = <<>> \/ s = <<>> THEN s
    ELSE IF Len(old) <= Len(s) /\ SubSeq(s, 1, Len(old)) = old
         THEN SubSeq(s, Len(old) + 1, Len(s))
         ELSE <<Head(s)>> \o ReplaceFirst(Tail(s), old)

\* variant: only trailing occurrences go, as with str.rstrip
RECURSIVE ReplaceTrailing(_, _)
ReplaceTrailing(s, old) ==
    IF old = <<>> \/ Len(s) < Len(old) THEN s
    ELSE IF SubSeq(s, Len(s) - Len(old) + 1, Len(s)) = old
         THEN ReplaceTrailing(SubSeq(s, 1, Len(s) - Len(old)), old)
         ELSE s

RECURSIVE Replace(_, _)
Replace(s, old) ==
    IF old = <<>> \/ s = <<>> THEN s
    ELSE IF StartsWith(s, old)
         THEN Replace(SubSeq(s, Len(old) + 1, Len(s)), old)
         ELSE <<Head(s)>> \o Replace(Tail(s), old)

\* variant: a missing padding symbol falls back to "_"
PadOrUnderscore(p) == IF p.some THEN p.val ELSE <<"_">>

\* ocr_result.padding_symbol or ""
PadOrEmpty(p) == IF p.some THEN p.val ELSE <<>>

\* ocr_result.text.replace(ocr_result.padding_symbol or "", "")
PlateText(r) == Replace(r.text.val, PadOrEmpty(r.padding_symbol))

(* -------------------- average confidence and its display -------------- *)
RECURSIVE Sum(_)
Sum(c) == IF c = <<>> THEN 0 ELSE Head(c) + Sum(Tail(c))

\* np.mean(confidences) * 100, in hundredths of a percent, rounded to the
\* nearest as the .2f format does; -1 stands for nan (mean of no values)
AvgPercent(c) ==
    IF c = <<>> THEN -1
    ELSE (200 * Sum(c) + Len(c)) \div (2 * Len(c))

DigitChars == <<"0", "1", "2", "3", "4", "5", "6", "7", "8", "9">>

RECURSIVE Digits(_)
Digits(n) ==
    IF n < 10 THEN <<DigitChars[n + 1]>>
    ELSE Digits(n \div 10) \o <<DigitChars[(n % 10) + 1]>>

\* f"{avg_confidence * 100:.2f}"
Format2f(h) ==
    IF h < 0 THEN <<"n", "a", "n">>
    ELSE Digits(h \div 100) \o <<".">> \o
         <<DigitChars[((h % 100) \div 10) + 1], DigitChars[(h % 10) + 1]>>

\* variant: the average runs over the slots of the kept characters only
KeptConfidences(r) ==
    LET t == r.text.val
        p == PadOrEmpty(r.padding_symbol)
        keep == {j \in 1..Len(r.confidences) : j > Len(t) \/ <<t[j]>> # p}
        F[j \in 0..Len(r.confidences)] ==
            IF j = 0 THEN <<>>
            ELSE IF j \in keep THEN Append(F[j - 1], r.confidences[j])
            ELSE F[j - 1]
    IN  F[Len(r.confidences)]

DisplayTextKeptSlots(r) ==
    PlateText(r) \o <<" ">> \o Format2f(AvgPercent(KeptConfidences(r)))
        \o <<"%">>

\* f"{plate_text} {avg_confidence * 100:.2f}%"
DisplayText(r) ==
    PlateText(r) \o <<" ">> \o Format2f(AvgPercent(r.confidences)) \o <<"%">>

(* ------------------------------ drawing ------------------------------- *)
RectThickness    == 2
TextOffset       == 10
FontScalePct     == 125
OutlineThickness == 6
TextThickness    == 2
HersheyHeight    == 22
HersheyAdvance   == 20

\* cv2.rectangle(frame, pt1, pt2, colour, thickness): the outline of the
\* rectangle with corners pt1 and pt2 (both inclusive), widened by half the
\* thickness on each side and clipped to the frame
OnOutline(p, b, thickness) ==
    LET h  == thickness \div 2
        xa == Min(b.x1, b.x2)
        xb == Max(b.x1, b.x2)
        ya == Min(b.y1, b.y2)
        yb == Max(b.y1, b.y2)
        y  == p[1]
        x  == p[2]
    IN  /\ xa - h <= x /\ x <= xb + h
        /\ ya - h <= y /\ y <= yb + h
        /\ ~(xa + h < x /\ x < xb - h /\ ya + h < y /\ y < yb - h)

Rectangle(f, b, colour, thickness) ==
    [p \in DOMAIN f |-> IF OnOutline(p, b, thickness) THEN colour ELSE f[p]]

\* cv2.putText(frame, text, org, FONT_HERSHEY_SIMPLEX, 1.25, colour,
\* thickness): org is the bottom-left corner of the text; the strokes are
\* modelled by the band they lie in, clipped to the frame
InText(p, text, org, thickness) ==
    LET h  == thickness \div 2
        gh == (HersheyHeight * FontScalePct) \div 100
        gw == (HersheyAdvance * FontScalePct) \div 100
        y  == p[1]
        x  == p[2]
    IN  /\ text # <<>>
        /\ org[1] - h <= x /\ x <= org[1] + Len(text) * gw + h
        /\ org[2] - gh - h <= y /\ y <= org[2] + h

PutText(f, text, org, colour, thickness) ==
    [p \in DOMAIN f |->
        IF InText(p, text, org, thickness) THEN colour ELSE f[p]]

\* entries of the log of drawing calls; k is the detection being handled
RectCall(k, b) ==
    [fn |-> "rectangle", k |-> k, pt1 |-> <<b.x1, b.y1>>,
     pt2 |-> <<b.x2, b.y2>>, text |-> <<>>, colour |-> Green,
     thickness |-> RectThickness]
TextCall(k, text, org, colour, thickness) ==
    [fn |-> "putText", k |-> k, pt1 |-> org, pt2 |-> org, text |-> text,
     colour |-> colour, thickness |-> thickness]

\* org=(x1, y1 - 10)
TextOrg(b) == <<b.x1, b.y1 - TextOffset>>

(* ------------------------------- state -------------------------------- *)
VARIABLES
    detector,           \* self.detector: the detections it yields for the frame
    ocr,                \* self.ocr: the results it may hand back for a crop
    frame,              \* the caller's pixel buffer
    frame0,             \* what the buffer held when the call started
    op,                 \* the operation called: "none", "predict", "draw"
    pc,                 \* position inside the operation
    plate_detections,   \* local: what the detector returned
    i,                  \* local: index of the detection being handled
    cropped_plate,      \* local: the crop handed to the OCR
    ocr_result,         \* local: what the OCR handed back
    recognized_plates,  \* local: the list predict builds
    calls,              \* log of capability invocations, in order
    crops,              \* log: the crop of each OCR invocation
    results,            \* log: the result of each OCR invocation
    drawn,              \* log of drawing calls issued on the frame
    ret                 \* the value returned to the caller

vars ==
    <<detector, ocr, frame, frame0, op, pc, plate_detections, i,
      cropped_plate, ocr_result, recognized_plates, calls, crops, results,
      drawn, ret>>

FrameRef == "frame"

NoRet       == [kind |-> "none", list |-> <<>>, ref |-> "none"]
ListRet(l)  == [kind |-> "list", list |-> l, ref |-> "none"]
RefRet(ref) == [kind |-> "ref", list |-> <<>>, ref |-> ref]

DetectEv      == [fn |-> "detect", phase |-> "call", k |-> 0]
OcrCallEv(k)  == [fn |-> "ocr", phase |-> "call", k |-> k]
OcrRetEv(k)   == [fn |-> "ocr", phase |-> "return", k |-> k]

InitCommon ==
    /\ frame \in Frames
    /\ frame0 = frame
    /\ op = "none"
    /\ pc = "idle"
    /\ plate_detections = <<>>
    /\ i = 0
    /\ cropped_plate = <<>>
    /\ ocr_result = NoneResult
    /\ recognized_plates = <<>>
    /\ calls = <<>>
    /\ crops = <<>>
    /\ results = <<>>
    /\ drawn = <<>>
    /\ ret = NoRet

\* an ALPR built on a detector yielding up to MaxDets boxes
Init ==
    /\ detector \in SeqsUpTo(Boxes, MaxDets)
    /\ ocr = FewOcrResults
    /\ InitCommon

\* an ALPR built on a detector yielding one box and an OCR that may hand
\* back any result
InitOcr ==
    /\ detector \in {<<b>> : b \in Boxes \cup {ScenarioBox}}
    /\ ocr = AllOcrResults
    /\ InitCommon

(* ------------------------------ predict ------------------------------- *)
CallPredict ==
    /\ pc = "idle"
    /\ op' = "predict"
    /\ pc' = "detect"
    /\ UNCHANGED <<detector, ocr, frame, frame0, plate_detections, i,
                   cropped_plate, ocr_result, recognized_plates, calls,
                   crops, results, drawn, ret>>

\* variant: the list starts with an empty string in it
InitialPlatesOneEmpty == << <<>> >>

\* recognized_plates = []
InitialPlates == <<>>

\* plate_detections = self.detector.predict(frame)
PredictDetect ==
    /\ op = "predict" /\ pc = "detect"
    /\ plate_detections' = detector
    /\ recognized_plates' = InitialPlates
    /\ calls' = Append(calls, DetectEv)
    /\ i' = 1
    /\ pc' = "loop"
    /\ UNCHANGED <<detector, ocr, frame, frame0, op, cropped_plate,
                   ocr_result, crops, results, drawn, ret>>

\* variant: predict draws the bounding box as draw_predictions does
PredictCropDrawing ==
    /\ op = "predict" /\ pc = "loop"
    /\ i <= Len(plate_detections)
    /\ frame' = Rectangle(frame, plate_detections[i], Green, RectThickness)
    /\ cropped_plate' = Crop(frame', plate_detections[i])
    /\ crops' = Append(crops, cropped_plate')
    /\ calls' = Append(calls, OcrCallEv(i))
    /\ pc' = "ocr"
    /\ UNCHANGED <<detector, ocr, frame0, op, plate_detections, i,
                   ocr_result, recognized_plates, results, drawn, ret>>

\* variant: a crop without pixels is not handed to the OCR
PredictCropSkipEmpty ==
    /\ op = "predict" /\ pc = "loop"
    /\ i <= Len(plate_detections)
    /\ cropped_plate' = Crop(frame, plate_detections[i])
    /\ IF cropped_plate' = <<>> \/ cropped_plate'[1] = <<>>
       THEN /\ i' = i + 1
            /\ UNCHANGED <<crops, calls, pc>>
       ELSE /\ crops' = Append(crops, cropped_plate')
            /\ calls' = Append(calls, OcrCallEv(i))
            /\ pc' = "ocr"
            /\ UNCHANGED i
    /\ UNCHANGED <<detector, ocr, frame, frame0, op, plate_detections,
                   ocr_result, recognized_plates, results, drawn, ret>>

\* cropped_plate = frame[y1:y2, x1:x2]; self.ocr.predict(cropped_plate)
PredictCrop ==
    /\ op = "predict" /\ pc = "loop"
    /\ i <= Len(plate_detections)
    /\ cropped_plate' = Crop(frame, plate_detections[i])
    /\ crops' = Append(crops, cropped_plate')
    /\ calls' = Append(calls, OcrCallEv(i))
    /\ pc' = "ocr"
    /\ UNCHANGED <<detector, ocr, frame, frame0, op, plate_detections, i,
                   ocr_result, recognized_plates, results, drawn, ret>>

\* ocr_result = <what self.ocr.predict returns>
OcrReturn ==
    /\ pc = "ocr"
    /\ \E r \in ocr :
        /\ ocr_result' = r
        /\ results' = Append(results, r)
    /\ calls' = Append(calls, OcrRetEv(i))
    /\ pc' = "check"
    /\ UNCHANGED <<detector, ocr, frame, frame0, op, plate_detections, i,
                   cropped_plate, recognized_plates, crops, drawn, ret>>

\* variant: the cleaned text is put at the front of the list
PredictAppendFront ==
    /\ op = "predict" /\ pc = "check"
    /\ recognized_plates' =
          IF OcrSkipped(ocr_result) THEN recognized_plates
          ELSE <<PlateText(ocr_result)>> \o recognized_plates
    /\ i' = i + 1
    /\ pc' = "loop"
    /\ UNCHANGED <<detector, ocr, frame, frame0, op, plate_detections,
                   cropped_plate, ocr_result, calls, crops, results, drawn,
                   ret>>

\* the skip check, the clean-up and the append
PredictAppend ==
    /\ op = "predict" /\ pc = "check"
    /\ recognized_plates' =
          IF OcrSkipped(ocr_result) THEN recognized_plates
          ELSE Append(recognized_plates, PlateText(ocr_result))
    /\ i' = i + 1
    /\ pc' = "loop"
    /\ UNCHANGED <<detector, ocr, frame, frame0, op, plate_detections,
                   cropped_plate, ocr_result, calls, crops, results, drawn,
                   ret>>

\* return recognized_plates
PredictReturn ==
    /\ op = "predict" /\ pc = "loop"
    /\ i > Len(plate_detections)
    /\ ret' = ListRet(recognized_plates)
    /\ pc' = "done"
    /\ UNCHANGED <<detector, ocr, frame, frame0, op, plate_detections, i,
                   cropped_plate, ocr_result, recognized_plates, calls,
                   crops, results, drawn>>

(* --------------------------- draw_predictions ------------------------- *)
CallDraw ==
    /\ pc = "idle"
    /\ op' = "draw"
    /\ pc' = "detect"
    /\ UNCHANGED <<detector, ocr, frame, frame0, plate_detections, i,
                   cropped_plate, ocr_result, recognized_plates, calls,
                   crops, results, drawn, ret>>

\* plate_detections = self.detector.predict(frame)
DrawDetect ==
    /\ op = "draw" /\ pc = "detect"
    /\ plate_detections' = detector
    /\ calls' = Append(calls, DetectEv)
    /\ i' = 1
    /\ pc' = "loop"
    /\ UNCHANGED <<detector, ocr, frame, frame0, op, cropped_plate,
                   ocr_result, recognized_plates, crops, results, drawn,
                   ret>>

\* cv2.rectangle(...); cropped_plate = frame[y1:y2, x1:x2];
\* self.ocr.predict(cropped_plate)
DrawCrop ==
    /\ op = "draw" /\ pc = "loop"
    /\ i <= Len(plate_detections)
    /\ LET b == plate_detections[i] IN
        /\ frame' = Rectangle(frame, b, Green, RectThickness)
        /\ drawn' = Append(drawn, RectCall(i, b))
        /\ cropped_plate' = Crop(frame', b)
    /\ crops' = Append(crops, cropped_plate')
    /\ calls' = Append(calls, OcrCallEv(i))
    /\ pc' = "ocr"
    /\ UNCHANGED <<detector, ocr, frame0, op, plate_detections, i,
                   ocr_result, recognized_plates, results, ret>>

\* the skip check, the clean-up, the average and the two putText calls
DrawText ==
    /\ op = "draw" /\ pc = "check"
    /\ IF OcrSkipped(ocr_result)
       THEN UNCHANGED <<frame, drawn>>
       ELSE LET display_text == DisplayText(ocr_result)
                org == TextOrg(plate_detections[i])
            IN  /\ frame' =
                     PutText(PutText(frame, display_text, org, Black,
                                     OutlineThickness),
                             display_text, org, White, TextThickness)
                /\ drawn' = drawn \o
                     <<TextCall(i, display_text, org, Black,
                                OutlineThickness),
                       TextCall(i, display_text, org, White,
                                TextThickness)>>
    /\ i' = i + 1
    /\ pc' = "loop"
    /\ UNCHANGED <<detector, ocr, frame0, op, plate_detections,
                   cropped_plate, ocr_result, recognized_plates, calls,
                   crops, results, ret>>

\* return frame
DrawReturn ==
    /\ op = "draw" /\ pc = "loop"
    /\ i > Len(plate_detections)
    /\ ret' = RefRet(FrameRef)
    /\ pc' = "done"
    /\ UNCHANGED <<detector, ocr, frame, frame0, op, plate_detections, i,
                   cropped_plate, ocr_result, recognized_plates, calls,
                   crops, results, drawn>>

Next ==
    \/ CallPredict
    \/ PredictDetect
    \/ PredictCrop
    \/ OcrReturn
    \/ PredictAppend
    \/ PredictReturn
    \/ CallDraw
    \/ DrawDetect
    \/ DrawCrop
    \/ DrawText
    \/ DrawReturn

Spec    == Init /\ [][Next]_vars
SpecOcr == InitOcr /\ [][Next]_vars

TypeOK ==
    /\ op \in {"none", "predict", "draw"}
    /\ pc \in {"idle", "detect", "loop", "ocr", "check", "done"}
    /\ i \in 0..(Len(detector) + 1)
    /\ Len(results) <= Len(crops)

(* ====================== properties of the pipeline ==================== *)
\* an OCR result that is present with non-empty text and confidences
Successful(r) ==
    /\ r.some
    /\ r.text.some
    /\ Len(r.text.val) > 0
    /\ Len(r.confidences) > 0

\* the padding symbol of a result as a string; empty when there is none
PadOf(r) == IF r.padding_symbol.some THEN r.padding_symbol.val ELSE <<>>

\* the text with every character equal to the padding symbol deleted
WithoutPad(t, p) == SelectSeq(t, LAMBDA c : <<c>> # p)

\* number of positions of t holding the padding symbol
Occurrences(t, p) == Cardinality({j \in 1..Len(t) : <<t[j]>> = p})

RECURSIVE ExpectedPlates(_)
ExpectedPlates(rs) ==
    IF rs = <<>> THEN <<>>
    ELSE IF Successful(Head(rs))
         THEN <<WithoutPad(Head(rs).text.val, PadOf(Head(rs)))>>
                 \o ExpectedPlates(Tail(rs))
         ELSE ExpectedPlates(Tail(rs))

\* detections whose result has been acted upon
Handled == {k \in 1..Len(results) : k < i}

SuccCount(k) == Cardinality({j \in 1..k : Successful(results[j])})

DrawnFor(k, fn) == {j \in 1..Len(drawn) : drawn[j].k = k /\ drawn[j].fn = fn}

LastSpace(s) ==
    CHOOSE j \in 1..Len(s) :
        /\ s[j] = " "
        /\ \A m \in (j + 1)..Len(s) : s[m] # " "

\* the cleaned text the operation produced for handled, successful k:
\* the string predict appended, or the text draw_predictions displayed
\* up to the blank before the percentage
ProducedTexts(k) ==
    IF op = "predict"
    THEN {recognized_plates[SuccCount(k)]}
    ELSE {SubSeq(drawn[j].text, 1, LastSpace(drawn[j].text) - 1) :
            j \in DrawnFor(k, "putText")}

\* C1: predict returns exactly the cleaned texts of the detections whose
\* OCR result is present with non-empty text and confidences, one string
\* per such detection, in the order the detector yielded them; its length
\* is the number of such detections and at most the number of detections.
C1_PredictReturnsSuccessfulInOrder ==
    (op = "predict" /\ pc = "done") =>
        /\ Len(results) = Len(detector)
        /\ ret = ListRet(ExpectedPlates(results))
        /\ Len(ret.list) = SuccCount(Len(results))
        /\ Len(ret.list) <= Len(detector)

C1_Witness ==
    /\ op = "predict" /\ pc = "done"
    /\ Len(detector) = 2
    /\ Successful(results[1]) /\ Successful(results[2])
    /\ ret.list = << <<"B">>, <<"A">> >>

C3_NoDetections ==
    (detector = <<>>) =>
        /\ drawn = <<>>
        /\ frame = frame0
        /\ crops = <<>>
        /\ (op = "predict" /\ pc = "done") => ret = ListRet(<<>>)
        /\ (op = "draw" /\ pc = "done") => ret = RefRet(FrameRef)

C3_Witness ==
    /\ detector = <<>>
    /\ pc = "done"
    /\ op = "draw"
    /\ calls = <<DetectEv>>

\* C4 as stated: in predict and in draw_predictions alike, the crop handed
\* to the OCR for the k-th detection is the original frame[y1:y2, x1:x2],
\* unaffected by drawing done earlier in the same call.
C4_CropsAreOriginal ==
    \A k \in 1..Len(crops) : crops[k] = Crop(frame0, detector[k])

\* C5: padding-symbol removal deletes every occurrence of the symbol and
\* keeps the other characters in order; an absent symbol leaves the text
\* unchanged, k occurrences shorten it by k times the symbol length, and
\* removing again changes nothing.
C5_PaddingRemoval ==
    \A k \in Handled :
        Successful(results[k]) =>
            LET t == results[k].text.val
                p == PadOf(results[k])
            IN  /\ ProducedTexts(k) # {}
                /\ \A c \in ProducedTexts(k) :
                      /\ c = WithoutPad(t, p)
                      /\ (Occurrences(t, p) = 0 => c = t)
                      /\ Len(c) = Len(t) - Occurrences(t, p) * Len(p)
                      /\ Replace(c, p) = c

C5_Witness ==
    /\ pc = "done"
    /\ \E k \in Handled :
          /\ Successful(results[k])
          /\ Occurrences(results[k].text.val, PadOf(results[k])) = 2
          /\ ProducedTexts(k) = {<<"A">>}

\* C6: when the OCR result has no padding symbol, the cleaned text that
\* predict appends and draw_predictions displays is the raw text.
C6_NoPaddingSymbol ==
    \A k \in Handled :
        (Successful(results[k]) /\ ~results[k].padding_symbol.some) =>
            ProducedTexts(k) = {results[k].text.val}

C6_Witness ==
    /\ op = "draw" /\ pc = "done"
    /\ \E k \in Handled :
          /\ Successful(results[k])
          /\ ~results[k].padding_symbol.some
          /\ results[k].text.val = <<"_", "A", "_">>
          /\ ProducedTexts(k) = {<<"_", "A", "_">>}

Decimal(c) ==
    CASE c = "0" -> 0 [] c = "1" -> 1 [] c = "2" -> 2 [] c = "3" -> 3
      [] c = "4" -> 4 [] c = "5" -> 5 [] c = "6" -> 6 [] c = "7" -> 7
      [] c = "8" -> 8 [] c = "9" -> 9 [] OTHER -> -1

AllDigits(s) == \A j \in 1..Len(s) : Decimal(s[j]) >= 0

RECURSIVE NumVal(_)
NumVal(s) ==
    IF s = <<>> THEN 0
    ELSE 10 * NumVal(SubSeq(s, 1, Len(s) - 1)) + Decimal(s[Len(s)])

Abs(n) == IF n < 0 THEN -n ELSE n

\* d reads "<cleaned> <p>%" where p has two decimals and is the decimal
\* number nearest to 100 times the mean of confs
ShowsTextAndMean(d, cleaned, confs) ==
    LET n     == Len(d)
        sp    == Len(cleaned) + 1
        num   == SubSeq(d, sp + 1, n - 1)
        m     == Len(num)
        whole == SubSeq(num, 1, m - 3)
        frac  == SubSeq(num, m - 1, m)
        h     == 100 * NumVal(whole) + NumVal(frac)
    IN  /\ n >= Len(cleaned) + 6
        /\ SubSeq(d, 1, Len(cleaned)) = cleaned
        /\ d[sp] = " "
        /\ d[n] = "%"
        /\ num[m - 2] = "."
        /\ AllDigits(whole) /\ AllDigits(frac)
        /\ (Len(whole) > 1 => whole[1] # "0")
        /\ 2 * Abs(h * Len(confs) - 100 * Sum(confs)) <= Len(confs)

\* C7: for every surviving detection draw_predictions displays
\* "<cleaned_text> <p>%", p being 100 times the mean of the whole raw
\* confidence sequence (padding slots included) with 2 decimals, at the
\* unclamped anchor (x1, y1 - 10); [0.9, 0.95, 1.0] shows 95.00%, and box
\* (10,10,50,40) with AB12 and [0.99,0.98,0.97,0.96] shows "AB12 97.50%"
\* at (10, 0).
C7_DisplayedTextAndAnchor ==
    /\ DisplayText(OcrResult(Str(<<"A", "B", "1", "2">>),
                             <<99, 98, 97, 96>>, NoneStr))
          = <<"A", "B", "1", "2", " ", "9", "7", ".", "5", "0", "%">>
    /\ DisplayText(OcrResult(Str(<<"A">>), <<90, 95, 100>>, NoneStr))
          = <<"A", " ", "9", "5", ".", "0", "0", "%">>
    /\ TextOrg(ScenarioBox) = <<10, 0>>
    /\ op = "draw" =>
          \A k \in Handled :
              Successful(results[k]) =>
                  /\ Cardinality(DrawnFor(k, "putText")) = 2
                  /\ \A j \in DrawnFor(k, "putText") :
                        /\ drawn[j].pt1 =
                              <<detector[k].x1, detector[k].y1 - 10>>
                        /\ ShowsTextAndMean(
                              drawn[j].text,
                              WithoutPad(results[k].text.val,
                                         PadOf(results[k])),
                              results[k].confidences)

C7_Witness ==
    /\ op = "draw" /\ pc = "done"
    /\ detector = <<ScenarioBox>>
    /\ results = <<OcrResult(Str(<<"A", "_">>), <<90, 100>>, Str(<<"_">>))>>
    /\ Len(drawn) = 3
    /\ drawn[2].text = <<"A", " ", "9", "5", ".", "0", "0", "%">>
    /\ drawn[2].pt1 = <<10, 0>>
    /\ drawn[3].text = drawn[2].text

RECURSIVE Replay(_, _)
Replay(f, log) ==
    IF log = <<>> THEN f
    ELSE LET e == Head(log)
             g == IF e.fn = "rectangle"
                  THEN Rectangle(f, BBox(e.pt1[1], e.pt1[2],
                                         e.pt2[1], e.pt2[2]),
                                 e.colour, e.thickness)
                  ELSE PutText(f, e.text, e.pt1, e.colour, e.thickness)
         IN  Replay(g, Tail(log))

IsEmptyCrop(c) == c = <<>> \/ c[1] = <<>>

\* C8: predict leaves every pixel of the frame as it was, whatever the
\* detections and OCR results; draw_predictions draws into that same
\* buffer and returns the very frame object it was given.
C8_FrameEffect ==
    /\ op = "predict" => (frame = frame0 /\ drawn = <<>>)
    /\ op = "draw" => frame = Replay(frame0, drawn)
    /\ (op = "draw" /\ pc = "done") => ret = RefRet(FrameRef)

C8_Witness ==
    /\ op = "predict" /\ pc = "done"
    /\ Len(detector) = 2
    /\ ~IsEmptyCrop(crops[1])
    /\ IsEmptyCrop(crops[2])
    /\ detector[2].y1 >= FrameH
    /\ Len(ret.list) = 2
    /\ frame0[<<0, 0>>] # Green

ExpectedCalls(n) ==
    [j \in 1..(2 * n + 1) |->
        IF j = 1 THEN DetectEv
        ELSE IF j % 2 = 0 THEN OcrCallEv(j \div 2)
        ELSE OcrRetEv(j \div 2)]

\* C9: in one call the detector is invoked once on the frame, then the OCR
\* once per detection, one after another in detector order, each OCR
\* round trip finishing before the next crop is taken; zero-area crops
\* are handed to the OCR like any other.
C9_SequentialCalls ==
    /\ Len(calls) <= 2 * Len(detector) + 1
    /\ calls = SubSeq(ExpectedCalls(Len(detector)), 1, Len(calls))
    /\ pc \in {"idle", "detect"} => calls = <<>>
    /\ pc = "loop" => Len(calls) = 2 * (i - 1) + 1
    /\ pc = "ocr" => Len(calls) = 2 * i
    /\ pc = "check" => Len(calls) = 2 * i + 1
    /\ pc = "done" => calls = ExpectedCalls(Len(detector))
    /\ Len(crops) = Cardinality({j \in 1..Len(calls) :
                         calls[j].fn = "ocr" /\ calls[j].phase = "call"})
    /\ Len(results) = Cardinality({j \in 1..Len(calls) :
                         calls[j].fn = "ocr" /\ calls[j].phase = "return"})

C9_Witness ==
    /\ op = "predict" /\ pc = "done"
    /\ Len(detector) = 2
    /\ detector[1] = BBox(2, 2, 2, 2)
    /\ IsEmptyCrop(crops[1])
    /\ Len(calls) = 5

\* C10 as stated: every string predict returns is non-empty and free of
\* the padding symbol of its OCR result, also when the text is made up of
\* padding symbols only.
C10_PlatesNonEmptyAndPadFree ==
    (op = "predict" /\ pc = "done") =>
        \A k \in 1..Len(results) :
            Successful(results[k]) =>
                /\ SuccCount(k) <= Len(ret.list)
                /\ ret.list[SuccCount(k)] # <<>>
                /\ Occurrences(ret.list[SuccCount(k)], PadOf(results[k])) = 0

\* C10 amended: every string predict returns is free of the padding
\* symbol of its OCR result, and it is empty exactly when the raw text
\* was made up of padding symbols only.
C10_PlatesPadFree ==
    (op = "predict" /\ pc = "done") =>
        \A k \in 1..Len(results) :
            Successful(results[k]) =>
                /\ SuccCount(k) <= Len(ret.list)
                /\ Occurrences(ret.list[SuccCount(k)], PadOf(results[k])) = 0
                /\ (ret.list[SuccCount(k)] = <<>>) <=>
                      (Occurrences(results[k].text.val, PadOf(results[k]))
                          = Len(results[k].text.val))

C10_Witness ==
    /\ op = "predict" /\ pc = "done"
    /\ Len(results) = 1
    /\ Successful(results[1])
    /\ results[1].text.val = <<"_", "_">>
    /\ results[1].padding_symbol = Str(<<"_">>)
    /\ ret.list = << <<>> >>

====
